---- MODULE Spec2Model ----
(***************************************************************************)
(* State-machine model of the two React front ends of mcp-chatbot-demo:    *)
(*                                                                         *)
(*   - the chat client: App (conversations, activeConversation,           *)
(*     createNewConversation, sendMessage, deleteConversation), ChatWindow *)
(*     (isWaitingForResponse, handleSendMessage) and MessageInput          *)
(*     (message, handleSubmit);                                            *)
(*   - LinkedInAPBDemo (messages, currentMessage, isLoading, loadingStage, *)
(*     mcpServers, sendMessage, simulateLoadingStages).                    *)
(*                                                                         *)
(* index.js mounts exactly one of the two App.jsx variants; the variable   *)
(* app records which one.  With an identity-provider project id the chat   *)
(* App is rendered by Login, which shows it or the sign-in flow ("login")  *)
(* according to the session hooks.  Every event handler, together with the React    *)
(* commit of the state updates it queues, is one atomic action; an await   *)
(* splits an async function into the actions before and after it.          *)
(* Date.now() and new Date() read the variable now, which the environment  *)
(* advances (Tick) independently of the handlers.                          *)
(***************************************************************************)
EXTENDS Integers, Sequences, FiniteSets, TLC

VARIABLES
  app,                   \* what is on screen: the "chat" App, the "demo" App, or
                         \* "login" (Login without the chat App)
  auth,                  \* index.js: projectId; Login: isAuthenticated,
                         \* isSessionLoading, isUserLoading as the hooks return them
  now,                   \* the value Date.now() returns
  conversations,         \* App: useState([])
  activeConversation,    \* App: useState(null)
  isWaitingForResponse,  \* ChatWindow: useState(false)
  message,               \* MessageInput: useState('')
  turns,                 \* App.sendMessage calls: the closure of a call that has not
                         \* ended, and how often each call ran its callback
  inflight,              \* indices of turns whose fetch has not settled yet
  lastOp,                \* the last mount, load, delete, submit or response, with its
                         \* argument and network outcome; Other after any other step
  messages,              \* LinkedInAPBDemo: useState([welcome])
  currentMessage,        \* LinkedInAPBDemo: useState('')
  isLoading,             \* LinkedInAPBDemo: useState(false)
  loadingStage,          \* LinkedInAPBDemo: useState('')
  mcpServers,            \* LinkedInAPBDemo: status of the four MCP servers
  stageIndex,            \* simulateLoadingStages: loop index i of the suspended sendMessage (0: none)
  query,                 \* currentMessage as captured by the suspended sendMessage
  resetTimers            \* number of pending setTimeout(..., 1000) server resets

chatVars == <<conversations, activeConversation, isWaitingForResponse, message, turns, inflight>>
demoVars == <<messages, currentMessage, isLoading, loadingStage, mcpServers, stageIndex, query, resetTimers>>
vars == <<app, auth, now, lastOp, chatVars, demoVars>>

(***************************************************************************)
(* Bounds of the model.                                                    *)
(***************************************************************************)
MaxTime == 2       \* Date.now() ranges over 1..MaxTime
MaxConvs == 2      \* conversations in the list
MaxSends == 2      \* calls of App.sendMessage
MaxDemoSends == 2  \* calls of LinkedInAPBDemo.sendMessage that pass the guard
MaxPrompts == 2    \* quick prompt buttons the user clicks: the first MaxPrompts of demoQueries

(***************************************************************************)
(* Texts are strings; Len, Head, Tail, SubSeq and \o act on their          *)
(* characters.                                                             *)
(***************************************************************************)
Texts == { " ", "a" }

Null == 0          \* null; like 0 it is falsy, and every id is Date.now() >= 1

Undefined == "undefined"   \* the value of a missing property; no text of the model equals it

RECURSIVE TrimLeft(_)
TrimLeft(s) == IF Len(s) > 0 /\ Head(s) = " " THEN TrimLeft(Tail(s)) ELSE s

RECURSIVE TrimRight(_)
TrimRight(s) ==
  IF Len(s) > 0 /\ SubSeq(s, Len(s), Len(s)) = " "
  THEN TrimRight(SubSeq(s, 1, Len(s) - 1)) ELSE s

trim(s) == TrimRight(TrimLeft(s))

(***************************************************************************)
(* App: conversations.                                                     *)
(***************************************************************************)
WelcomeContent == "Hello! How can I assist you today?"
ErrorContent ==
  "Sorry, I'm having trouble connecting to the server. Please try again later."
NewChatTitle == "New chat"
TitleLimit == 60

welcomeMessage(t) ==
  [id |-> "welcome-msg", role |-> "assistant", content |-> WelcomeContent,
   timestamp |-> t, isError |-> FALSE]

\* a faulty constructor: the conversation starts without the greeting
newConversationEmpty(t) ==
  [id |-> t, title |-> NewChatTitle, messages |-> <<>>, createdAt |-> t]

newConversation(t) ==
  [id |-> t, title |-> NewChatTitle, messages |-> <<welcomeMessage(t)>>, createdAt |-> t]

userMessage(text, t) ==
  [id |-> "msg-" \o ToString(t), role |-> "user", content |-> text, timestamp |-> t,
   isError |-> FALSE]

assistantMessage(content, t) ==
  [id |-> "msg-" \o ToString(t + 1), role |-> "assistant", content |-> content,
   timestamp |-> t, isError |-> FALSE]

\* a faulty error message: it is given a role of its own
errorMessageAsSystem(t) ==
  [id |-> "error-" \o ToString(t), role |-> "system", content |-> ErrorContent,
   timestamp |-> t, isError |-> TRUE]

errorMessage(t) ==
  [id |-> "error-" \o ToString(t), role |-> "assistant", content |-> ErrorContent,
   timestamp |-> t, isError |-> TRUE]

ConvIds(convs) == { convs[i].id : i \in 1..Len(convs) }

\* conversations.find(convo => convo.id === activeConversation) || null
currentConversation ==
  IF \E i \in 1..Len(conversations) : conversations[i].id = activeConversation
  THEN LET i == CHOOSE j \in 1..Len(conversations) :
                  /\ conversations[j].id = activeConversation
                  /\ \A k \in 1..(j - 1) : conversations[k].id # activeConversation
       IN  <<conversations[i]>>
  ELSE <<>>

\* ChatWindow renders the message list and MessageInput only for a conversation
InputMounted == app = "chat" /\ currentConversation # <<>>

derivedTitle(text) ==
  SubSeq(text, 1, IF Len(text) < TitleLimit THEN Len(text) ELSE TitleLimit)
    \o (IF Len(text) > TitleLimit THEN "..." ELSE "")

\* a faulty update: every user message rewrites the title
withUserMessageRetitles(convs, active, text, t) ==
  [i \in 1..Len(convs) |->
     IF convs[i].id = active
     THEN [convs[i] EXCEPT !.title = derivedTitle(text),
                           !.messages = Append(@, userMessage(text, t))]
     ELSE convs[i]]

\* a faulty update: a text the conversation already holds is not appended again
withUserMessageDeduplicated(convs, active, text, t) ==
  [i \in 1..Len(convs) |->
     IF /\ convs[i].id = active
        /\ \A j \in 1..Len(convs[i].messages) :
              ~(convs[i].messages[j].role = "user" /\ convs[i].messages[j].content = text)
     THEN [convs[i] EXCEPT
             !.title = IF Len(convs[i].messages) = 1
                          /\ convs[i].messages[1].id = "welcome-msg"
                       THEN derivedTitle(text) ELSE @,
             !.messages = Append(@, userMessage(text, t))]
     ELSE convs[i]]

\* the conversations.map of sendMessage that appends the user message
withUserMessage(convs, active, text, t) ==
  [i \in 1..Len(convs) |->
     IF convs[i].id = active
     THEN [convs[i] EXCEPT
             !.title = IF Len(convs[i].messages) = 1
                          /\ convs[i].messages[1].id = "welcome-msg"
                       THEN derivedTitle(text) ELSE @,
             !.messages = Append(@, userMessage(text, t))]
     ELSE convs[i]]

\* a faulty update: the message is appended twice
withAppendedTwice(convs, conv, m) ==
  [i \in 1..Len(convs) |->
     IF convs[i].id = conv THEN [convs[i] EXCEPT !.messages = Append(Append(@, m), m)]
     ELSE convs[i]]

\* a faulty update: the message is put in front of the list
withPrepended(convs, conv, m) ==
  [i \in 1..Len(convs) |->
     IF convs[i].id = conv THEN [convs[i] EXCEPT !.messages = <<m>> \o @]
     ELSE convs[i]]

\* the functional updates of sendMessage that append the reply or the error message
withAppended(convs, conv, m) ==
  [i \in 1..Len(convs) |->
     IF convs[i].id = conv THEN [convs[i] EXCEPT !.messages = Append(@, m)]
     ELSE convs[i]]

(***************************************************************************)
(* What the network can answer to the fetch of sendMessage.  fetch rejects *)
(* on a network error and resolves on every HTTP status; response.json()   *)
(* rejects on a body that is not JSON.                                     *)
(***************************************************************************)
ReplyContent == "r"

Outcomes ==
  { [kind |-> "reject", status |-> 0, body |-> "none", message |-> Undefined],
    [kind |-> "http", status |-> 200, body |-> "object", message |-> ReplyContent],
    [kind |-> "http", status |-> 200, body |-> "notjson", message |-> Undefined],
    [kind |-> "http", status |-> 500, body |-> "object", message |-> Undefined] }

NoOutcome == [kind |-> "none", status |-> 0, body |-> "none", message |-> Undefined]

\* the try block of sendMessage throws into the catch block
Throws(o) == o.kind = "reject" \/ o.body = "notjson"

Op(name, id) == [op |-> name, id |-> id, net |-> NoOutcome]

\* what lastOp records for the clock, keystrokes, selections, creations and timers
Other == Op("other", Null)

(***************************************************************************)
(* LinkedInAPBDemo.                                                        *)
(***************************************************************************)
demoQueries ==
  << "Find React frameworks for LinkedIn-scale applications",
     "Show me AI writing tools with activity scores above 0.8",
     "Compare JavaScript frameworks by GitHub activity",
     "What productivity tools do successful startups use?",
     "Find enterprise-ready tools with 99.9% uptime" >>

stages ==
  << "Analyzing query intent...",
     "Querying 25,347 tools database...",
     "Cross-referencing GitHub metrics...",
     "Calculating activity scores...",
     "Synthesizing recommendations..." >>

ServerNames == << "Database", "Web Search", "Memory", "Sequential" >>

allServers(status) == [i \in 1..Len(ServerNames) |-> [name |-> ServerNames[i], status |-> status]]

UpperCase == "ABCDEFGHIJKLMNOPQRSTUVWXYZ"
LowerCase == "abcdefghijklmnopqrstuvwxyz"

lowerChar(c) ==
  IF \E i \in 1..Len(UpperCase) : SubSeq(UpperCase, i, i) = c
  THEN LET i == CHOOSE j \in 1..Len(UpperCase) : SubSeq(UpperCase, j, j) = c
       IN  SubSeq(LowerCase, i, i)
  ELSE c

RECURSIVE toLowerCase(_)
toLowerCase(s) ==
  CHOOSE lower \in
    { IF Len(t) = 0 THEN "" ELSE lowerChar(Head(t)) \o toLowerCase(Tail(t)) : t \in {s} } : TRUE

includes(s, sub) == \E i \in 1..(Len(s) - Len(sub) + 1) : SubSeq(s, i, i + Len(sub) - 1) = sub

\* const queryLower = query.toLowerCase() is computed once: queryLower is
\* bound to its value
generateMockResponse(q) ==
  CHOOSE response \in
    { IF includes(queryLower, "react") \/ includes(queryLower, "framework")
      THEN [type |-> "tool_analysis", title |-> "React Ecosystem Analysis - Enterprise Scale",
            query |-> q]
      ELSE IF includes(queryLower, "ai writing") \/ includes(queryLower, "writing tools")
      THEN [type |-> "tool_analysis", title |-> "AI Writing Tools - Business Impact Analysis",
            query |-> q]
      ELSE [type |-> "general_analysis", title |-> "AI Tools Intelligence Analysis",
            query |-> q] : queryLower \in { toLowerCase(q) } } : TRUE

demoWelcome(t) ==
  [id |-> 1, role |-> "assistant",
   content |-> [type |-> "welcome", title |-> "Welcome to AI Tools Intelligence Platform",
                query |-> ""],
   timestamp |-> t]

UserCount(msgs) == Cardinality({ i \in 1..Len(msgs) : msgs[i].role = "user" })

(***************************************************************************)
(* index.js and Login: what is rendered.  Without a project id (the empty  *)
(* string stands for undefined) index.js renders App itself and no hook of *)
(* the identity provider is called.                                        *)
(***************************************************************************)
NoAuth ==
  [projectId |-> "", isAuthenticated |-> FALSE, isSessionLoading |-> FALSE,
   isUserLoading |-> FALSE]

\* a faulty Login: App is shown as soon as user loading has finished
renderedWhenLoaded(a) ==
  IF a.projectId # ""
  THEN IF ~a.isUserLoading THEN "chat" ELSE "login"
  ELSE "chat"

\* projectId ? <AuthProvider><Login /></AuthProvider> : <App />, and in Login
\* !isUserLoading && isAuthenticated && <App ... />
rendered(a) ==
  IF a.projectId # ""
  THEN IF ~a.isUserLoading /\ a.isAuthenticated THEN "chat" ELSE "login"
  ELSE "chat"

(***************************************************************************)
(* Initial state: the component just mounted, no effect has run yet.       *)
(***************************************************************************)
Init ==
  /\ app \in {"chat", "demo"}
  /\ auth = NoAuth
  /\ now = 1
  /\ lastOp = Op("mount", Null)
  /\ conversations = <<>>
  /\ activeConversation = Null
  /\ isWaitingForResponse = FALSE
  /\ message = ""
  /\ turns = <<>>
  /\ inflight = {}
  /\ messages = IF app = "demo" THEN <<demoWelcome(now)>> ELSE <<>>
  /\ currentMessage = ""
  /\ isLoading = FALSE
  /\ loadingStage = ""
  /\ mcpServers = IF app = "demo" THEN allServers("ready") ELSE <<>>
  /\ stageIndex = 0
  /\ query = ""
  /\ resetTimers = 0

\* the clock advances
Tick ==
  /\ now < MaxTime
  /\ now' = now + 1
  /\ lastOp' = Other
  /\ UNCHANGED <<app, auth, chatVars, demoVars>>

\* a faulty effect: the synthesized conversation is not made active
InitialLoadInactive ==
  /\ app = "chat"
  /\ Len(conversations) = 0
  /\ conversations' = <<newConversation(now)>>
  /\ lastOp' = Op("initialLoad", Null)
  /\ UNCHANGED <<app, auth, now, activeConversation, isWaitingForResponse, message, turns,
                 inflight, demoVars>>

\* App: useEffect(..., [conversations.length])
InitialLoad ==
  /\ app = "chat"
  /\ Len(conversations) = 0
  /\ conversations' = <<newConversation(now)>>
  /\ activeConversation' = newConversation(now).id
  /\ lastOp' = Op("initialLoad", Null)
  /\ UNCHANGED <<app, auth, now, isWaitingForResponse, message, turns, inflight, demoVars>>

\* a faulty createNewConversation: the new conversation is put at the end
createNewConversationAtEnd(convs, t) ==
  [conversations |-> convs \o <<newConversation(t)>>,
   activeConversation |-> newConversation(t).id]

\* App.createNewConversation: the two state updates it queues
createNewConversation(convs, t) ==
  [conversations |-> <<newConversation(t)>> \o convs,
   activeConversation |-> newConversation(t).id]

CreateNewConversation ==
  /\ app = "chat"
  /\ Len(conversations) > 0
  /\ Len(conversations) < MaxConvs
  /\ conversations' = createNewConversation(conversations, now).conversations
  /\ activeConversation' = createNewConversation(conversations, now).activeConversation
  /\ lastOp' = Other
  /\ UNCHANGED <<app, auth, now, isWaitingForResponse, message, turns, inflight, demoVars>>

\* Sidebar: onSelectConversation(conversation.id) = setActiveConversation
SelectConversation(id) ==
  /\ app = "chat"
  /\ id \in ConvIds(conversations)
  /\ id # activeConversation
  /\ activeConversation' = id
  /\ lastOp' = Other
  /\ UNCHANGED <<app, auth, now, conversations, isWaitingForResponse, message, turns, inflight,
                 demoVars>>

\* a faulty deletion: nothing is synthesized when no conversation remains
deleteConversationNoSynthesis(convs, active, id, t) ==
  LET updatedConversations == SelectSeq(convs, LAMBDA c : c.id # id)
  IN  IF id = active /\ Len(updatedConversations) > 0
      THEN [conversations |-> updatedConversations,
            activeConversation |-> updatedConversations[1].id]
      ELSE [conversations |-> updatedConversations, activeConversation |-> active]

\* a faulty deletion: the selection is left alone when other conversations remain
deleteConversationKeepsActive(convs, active, id, t) ==
  LET updatedConversations == SelectSeq(convs, LAMBDA c : c.id # id)
  IN  IF id = active /\ Len(updatedConversations) = 0
      THEN createNewConversation(convs, t)
      ELSE [conversations |-> updatedConversations, activeConversation |-> active]

\* App.deleteConversation: the state updates it queues; the nested
\* createNewConversation() still sees the conversations of the current render
deleteConversation(convs, active, id, t) ==
  LET updatedConversations == SelectSeq(convs, LAMBDA c : c.id # id)
  IN  IF id = active
      THEN IF Len(updatedConversations) > 0
           THEN [conversations |-> updatedConversations,
                 activeConversation |-> updatedConversations[1].id]
           ELSE createNewConversation(convs, t)
      ELSE [conversations |-> updatedConversations, activeConversation |-> active]

DeleteConversation(id) ==
  /\ app = "chat"
  /\ id \in ConvIds(conversations)
  /\ Len(deleteConversation(conversations, activeConversation, id, now).conversations)
       <= MaxConvs
  /\ conversations' =
       deleteConversation(conversations, activeConversation, id, now).conversations
  /\ activeConversation' =
       deleteConversation(conversations, activeConversation, id, now).activeConversation
  /\ lastOp' = Op("deleteConversation", id)
  /\ UNCHANGED <<app, auth, now, isWaitingForResponse, message, turns, inflight, demoVars>>

\* MessageInput: onChange of the textarea (disabled={isDisabled}); the draft
\* is followed as long as a submission can still be made within MaxSends
ChangeMessage(text) ==
  /\ InputMounted
  /\ ~isWaitingForResponse
  /\ Len(turns) < MaxSends
  /\ text # message
  /\ message' = text
  /\ lastOp' = Other
  /\ UNCHANGED <<app, auth, now, conversations, activeConversation, isWaitingForResponse, turns,
                 inflight, demoVars>>

\* App.sendMessage up to its first await: the early return, the user
\* message, the fetch
sendMessage(text) ==
  IF activeConversation = Null
  THEN /\ turns' = Append(turns, [conv |-> Null, text |-> text, callbacks |-> 0])
       /\ UNCHANGED <<conversations, inflight>>
  ELSE /\ conversations' = withUserMessage(conversations, activeConversation, text, now)
       /\ turns' = Append(turns, [conv |-> activeConversation, text |-> text,
                                  callbacks |-> 0])
       /\ inflight' = inflight \cup {Len(turns) + 1}

\* the end of a call of App.sendMessage: onResponseReceived runs n times
\* and the closure of the call is released
settled(turn, n) == [conv |-> Null, text |-> "", callbacks |-> turn.callbacks + n]

\* a faulty handler: the waiting flag is not set
handleSendMessageNoFlag(text) ==
  IF trim(text) = "" \/ isWaitingForResponse
  THEN UNCHANGED <<conversations, turns, inflight, isWaitingForResponse>>
  ELSE /\ UNCHANGED isWaitingForResponse
       /\ sendMessage(text)

\* ChatWindow.handleSendMessage
handleSendMessage(text) ==
  IF trim(text) = "" \/ isWaitingForResponse
  THEN UNCHANGED <<conversations, turns, inflight, isWaitingForResponse>>
  ELSE /\ isWaitingForResponse' = TRUE
       /\ sendMessage(text)

\* MessageInput.handleSubmit
HandleSubmit ==
  /\ InputMounted
  /\ Len(turns) < MaxSends
  /\ IF trim(message) = "" \/ isWaitingForResponse
     THEN UNCHANGED <<conversations, turns, inflight, isWaitingForResponse, message>>
     ELSE /\ handleSendMessage(message)
          /\ message' = ""
  /\ lastOp' = Op("handleSubmit", Len(turns') - Len(turns))
  /\ UNCHANGED <<app, auth, now, activeConversation, demoVars>>

\* a faulty continuation: the reply goes to the conversation that is active now
RespondToActive(k, o) ==
  /\ app = "chat"
  /\ k \in inflight
  /\ o \in Outcomes
  /\ inflight' = inflight \ {k}
  /\ conversations' =
       IF Throws(o)
       THEN withAppended(conversations, activeConversation, errorMessage(now))
       ELSE withAppended(conversations, activeConversation, assistantMessage(o.message, now))
  /\ turns' = [turns EXCEPT ![k] = settled(@, 1)]
  /\ isWaitingForResponse' = FALSE
  /\ lastOp' = [op |-> "respond", id |-> turns[k].conv, net |-> o]
  /\ UNCHANGED <<app, auth, now, activeConversation, message, demoVars>>

\* a faulty continuation: the callback is called in the catch block and in finally
RespondCallbackTwice(k, o) ==
  /\ app = "chat"
  /\ k \in inflight
  /\ o \in Outcomes
  /\ inflight' = inflight \ {k}
  /\ conversations' =
       IF Throws(o)
       THEN withAppended(conversations, turns[k].conv, errorMessage(now))
       ELSE withAppended(conversations, turns[k].conv, assistantMessage(o.message, now))
  /\ turns' = [turns EXCEPT ![k] = settled(@, IF Throws(o) THEN 2 ELSE 1)]
  /\ isWaitingForResponse' = FALSE
  /\ lastOp' = [op |-> "respond", id |-> turns[k].conv, net |-> o]
  /\ UNCHANGED <<app, auth, now, activeConversation, message, demoVars>>

\* a faulty continuation: the callback is called only when the conversation was found
RespondIfPresent(k, o) ==
  /\ app = "chat"
  /\ k \in inflight
  /\ o \in Outcomes
  /\ inflight' = inflight \ {k}
  /\ conversations' =
       IF Throws(o)
       THEN withAppended(conversations, turns[k].conv, errorMessage(now))
       ELSE withAppended(conversations, turns[k].conv, assistantMessage(o.message, now))
  /\ IF turns[k].conv \in ConvIds(conversations)
     THEN /\ turns' = [turns EXCEPT ![k] = settled(@, 1)]
          /\ isWaitingForResponse' = FALSE
     ELSE UNCHANGED <<turns, isWaitingForResponse>>
  /\ lastOp' = [op |-> "respond", id |-> turns[k].conv, net |-> o]
  /\ UNCHANGED <<app, auth, now, activeConversation, message, demoVars>>

\* App.sendMessage after the awaits: try, catch and finally
Respond(k, o) ==
  /\ app = "chat"
  /\ k \in inflight
  /\ o \in Outcomes
  /\ inflight' = inflight \ {k}
  /\ conversations' =
       IF Throws(o)
       THEN withAppended(conversations, turns[k].conv, errorMessage(now))
       ELSE withAppended(conversations, turns[k].conv, assistantMessage(o.message, now))
  /\ turns' = [turns EXCEPT ![k] = settled(@, 1)]
  /\ isWaitingForResponse' = FALSE
  /\ lastOp' = [op |-> "respond", id |-> turns[k].conv, net |-> o]
  /\ UNCHANGED <<app, auth, now, activeConversation, message, demoVars>>

ChatNext ==
  \/ InitialLoad
  \/ CreateNewConversation
  \/ \E id \in 1..MaxTime : SelectConversation(id)
  \/ \E id \in 1..MaxTime : DeleteConversation(id)
  \/ \E text \in Texts : ChangeMessage(text)
  \/ HandleSubmit
  \/ \E k \in 1..MaxSends, o \in Outcomes : Respond(k, o)

(***************************************************************************)
(* LinkedInAPBDemo: handlers.                                              *)
(***************************************************************************)
\* onChange of the textarea (disabled={isLoading}); the draft is followed as
\* long as a send can still be made within MaxDemoSends
ChangeCurrentMessage(text) ==
  /\ app = "demo"
  /\ ~isLoading
  /\ UserCount(messages) < MaxDemoSends
  /\ text # currentMessage
  /\ currentMessage' = text
  /\ lastOp' = Other
  /\ UNCHANGED <<app, auth, now, chatVars, messages, isLoading, loadingStage, mcpServers,
                 stageIndex, query, resetTimers>>

\* onClick of a quick prompt button: setCurrentMessage(query), followed as
\* long as a send can still be made within MaxDemoSends
QuickPrompt(i) ==
  /\ app = "demo"
  /\ i \in 1..Len(demoQueries)
  /\ UserCount(messages) < MaxDemoSends
  /\ demoQueries[i] # currentMessage
  /\ currentMessage' = demoQueries[i]
  /\ lastOp' = Other
  /\ UNCHANGED <<app, auth, now, chatVars, messages, isLoading, loadingStage, mcpServers,
                 stageIndex, query, resetTimers>>

demoUserMessage(text, t) ==
  [id |-> t, role |-> "user", content |-> text, timestamp |-> t]

demoAssistantMessage(response, t) ==
  [id |-> t + 1, role |-> "assistant", content |-> response, timestamp |-> t]

\* a faulty sendMessage: the text is not trimmed before it is tested
DemoSendMessageNoTrim ==
  /\ app = "demo"
  /\ UserCount(messages) < MaxDemoSends
  /\ lastOp' = Op("demoSendMessage", Null)
  /\ IF currentMessage = "" \/ isLoading
     THEN UNCHANGED demoVars
     ELSE /\ messages' = Append(messages, demoUserMessage(currentMessage, now))
          /\ currentMessage' = ""
          /\ isLoading' = TRUE
          /\ mcpServers' = allServers("active")
          /\ loadingStage' = stages[1]
          /\ stageIndex' = 1
          /\ query' = currentMessage
          /\ UNCHANGED resetTimers
  /\ UNCHANGED <<app, auth, now, chatVars>>

\* LinkedInAPBDemo.sendMessage up to the first await of simulateLoadingStages
DemoSendMessage ==
  /\ app = "demo"
  /\ UserCount(messages) < MaxDemoSends
  /\ lastOp' = Op("demoSendMessage", Null)
  /\ IF trim(currentMessage) = "" \/ isLoading
     THEN UNCHANGED demoVars
     ELSE /\ messages' = Append(messages, demoUserMessage(currentMessage, now))
          /\ currentMessage' = ""
          /\ isLoading' = TRUE
          /\ mcpServers' = allServers("active")
          /\ loadingStage' = stages[1]
          /\ stageIndex' = 1
          /\ query' = currentMessage
          /\ UNCHANGED resetTimers
  /\ UNCHANGED <<app, auth, now, chatVars>>

\* simulateLoadingStages: a 400 ms timeout fires and the loop goes on
LoadingStageTimeout ==
  /\ app = "demo"
  /\ stageIndex \in 1..(Len(stages) - 1)
  /\ stageIndex' = stageIndex + 1
  /\ loadingStage' = stages[stageIndex + 1]
  /\ lastOp' = Other
  /\ UNCHANGED <<app, auth, now, chatVars, messages, currentMessage, isLoading, mcpServers, query,
                 resetTimers>>

\* a faulty sendMessage: the response is generated from the input field as
\* it is when the loop ends
DemoRespondFromInput ==
  /\ app = "demo"
  /\ stageIndex = Len(stages)
  /\ messages' = Append(messages,
                        demoAssistantMessage(generateMockResponse(currentMessage), now))
  /\ isLoading' = FALSE
  /\ loadingStage' = ""
  /\ resetTimers' = resetTimers + 1
  /\ stageIndex' = 0
  /\ lastOp' = Op("demoRespond", Null)
  /\ UNCHANGED <<app, auth, now, chatVars, currentMessage, mcpServers, query>>

\* a faulty sendMessage: no reset of the servers is scheduled after the response
DemoRespondNoReset ==
  /\ app = "demo"
  /\ stageIndex = Len(stages)
  /\ messages' = Append(messages, demoAssistantMessage(generateMockResponse(query), now))
  /\ isLoading' = FALSE
  /\ loadingStage' = ""
  /\ stageIndex' = 0
  /\ lastOp' = Op("demoRespond", Null)
  /\ UNCHANGED <<app, auth, now, chatVars, currentMessage, mcpServers, query, resetTimers>>

\* the last 400 ms timeout fires: the loop ends and sendMessage runs to its end
DemoRespond ==
  /\ app = "demo"
  /\ stageIndex = Len(stages)
  /\ messages' = Append(messages, demoAssistantMessage(generateMockResponse(query), now))
  /\ isLoading' = FALSE
  /\ loadingStage' = ""
  /\ resetTimers' = resetTimers + 1
  /\ stageIndex' = 0
  /\ lastOp' = Op("demoRespond", Null)
  /\ UNCHANGED <<app, auth, now, chatVars, currentMessage, mcpServers, query>>

\* the setTimeout(..., 1000) of sendMessage fires
ResetServersTimeout ==
  /\ app = "demo"
  /\ resetTimers > 0
  /\ resetTimers' = resetTimers - 1
  /\ mcpServers' = allServers("ready")
  /\ lastOp' = Other
  /\ UNCHANGED <<app, auth, now, chatVars, messages, currentMessage, isLoading, loadingStage,
                 stageIndex, query>>

DemoNext ==
  \/ \E text \in Texts : ChangeCurrentMessage(text)
  \/ \E i \in 1..MaxPrompts : QuickPrompt(i)
  \/ DemoSendMessage
  \/ LoadingStageTimeout
  \/ DemoRespond
  \/ ResetServersTimeout

Next ==
  \/ Tick
  \/ ChatNext
  \/ DemoNext

Spec == Init /\ [][Next]_vars

\* the chat client alone
ChatInit == Init /\ app = "chat"

ChatStep == Tick \/ ChatNext

\* the chat client under a network that eventually settles every fetch: it
\* resolves or it rejects
FairSpec ==
  /\ ChatInit
  /\ [][ChatStep]_vars
  /\ WF_vars(\E k \in 1..MaxSends, o \in Outcomes : Respond(k, o))

(***************************************************************************)
(* The chat client fed with texts at the title limit: one of TitleLimit    *)
(* characters and one of TitleLimit + 1, answered by a reply or by a       *)
(* rejected fetch.                                                         *)
(***************************************************************************)
T10 == "0123456789"
T60 == T10 \o T10 \o T10 \o T10 \o T10 \o T10
T61 == T60 \o "x"

TitleTexts == { T60, T61 }

TitleOutcomes == { o \in Outcomes : o.kind = "reject" \/ (o.status = 200 /\ o.body = "object") }

TitleNext ==
  \/ InitialLoad
  \/ CreateNewConversation
  \/ \E id \in 1..MaxTime : SelectConversation(id)
  \/ \E id \in 1..MaxTime : DeleteConversation(id)
  \/ \E text \in TitleTexts : ChangeMessage(text)
  \/ HandleSubmit
  \/ \E k \in 1..MaxSends, o \in TitleOutcomes : Respond(k, o)

TitleStep == Tick \/ TitleNext

TitleSpec == ChatInit /\ [][TitleStep]_vars

(***************************************************************************)
(* The chat client behind the identity provider.  The provider's SDK is    *)
(* not part of the repository: its hooks may return any values, and change *)
(* them at any time.  Login renders again on every change; the chat App    *)
(* keeps its state while it stays rendered, loses it when it is taken off  *)
(* the screen (updates of a pending sendMessage then go to an unmounted    *)
(* component and are dropped) and starts from its initial state when it is *)
(* rendered again.                                                         *)
(***************************************************************************)
ProjectIds == { "", "P" }

AuthStates ==
  { NoAuth } \cup
  [projectId : ProjectIds \ {""}, isAuthenticated : BOOLEAN, isSessionLoading : BOOLEAN,
   isUserLoading : BOOLEAN]

AuthInit ==
  /\ auth \in AuthStates
  /\ app = rendered(auth)
  /\ now = 1
  /\ lastOp = Op("mount", Null)
  /\ conversations = <<>>
  /\ activeConversation = Null
  /\ isWaitingForResponse = FALSE
  /\ message = ""
  /\ turns = <<>>
  /\ inflight = {}
  /\ messages = <<>>
  /\ currentMessage = ""
  /\ isLoading = FALSE
  /\ loadingStage = ""
  /\ mcpServers = <<>>
  /\ stageIndex = 0
  /\ query = ""
  /\ resetTimers = 0

\* useSession / useUser return new values and Login renders again
SessionChange(a) ==
  /\ auth.projectId # ""
  /\ a \in AuthStates
  /\ a.projectId = auth.projectId
  /\ a # auth
  /\ auth' = a
  /\ app' = rendered(a)
  /\ IF app = "chat" /\ rendered(a) = "login"
     THEN /\ conversations' = <<>>
          /\ activeConversation' = Null
          /\ isWaitingForResponse' = FALSE
          /\ message' = ""
          /\ turns' = <<>>
          /\ inflight' = {}
     ELSE UNCHANGED chatVars
  /\ lastOp' = IF app = "login" /\ rendered(a) = "chat" THEN Op("mount", Null) ELSE Other
  /\ UNCHANGED <<now, demoVars>>

\* the fetch is answered by a reply or it is rejected
AuthNext ==
  \/ \E a \in AuthStates : SessionChange(a)
  \/ Tick
  \/ InitialLoad
  \/ CreateNewConversation
  \/ \E id \in 1..MaxTime : SelectConversation(id)
  \/ \E id \in 1..MaxTime : DeleteConversation(id)
  \/ \E text \in Texts : ChangeMessage(text)
  \/ HandleSubmit
  \/ \E k \in 1..MaxSends, o \in TitleOutcomes : Respond(k, o)

AuthSpec == AuthInit /\ [][AuthNext]_vars

(***************************************************************************)
(* LinkedInAPBDemo alone, under timers that fire: a pending 400 ms timeout *)
(* of simulateLoadingStages and a pending 1000 ms reset are eventually     *)
(* run by the event loop.  The clock is held in this specification.        *)
(***************************************************************************)
DemoInit == Init /\ app = "demo"

DemoFairSpec ==
  /\ DemoInit
  /\ [][DemoNext]_vars
  /\ WF_vars(LoadingStageTimeout \/ DemoRespond \/ ResetServersTimeout)

(***************************************************************************)
(* Steps and shapes the properties speak about.                            *)
(***************************************************************************)
\* this step is a call of App.sendMessage that issues the fetch
SendStep == Len(turns') = Len(turns) + 1 /\ Len(turns') \in inflight'

\* this step settles the fetch of turn k
SettleStep(k) == k \in inflight /\ k \notin inflight'

\* msgs2 is msgs1 with exactly one message appended, of the given role
AppendsOne(msgs1, msgs2, role) ==
  /\ Len(msgs2) = Len(msgs1) + 1
  /\ \A j \in 1..Len(msgs1) : msgs2[j] = msgs1[j]
  /\ msgs2[Len(msgs2)].role = role

LastMessage(c) == c.messages[Len(c.messages)]

Positions(id) == { i \in 1..Len(conversations) : conversations[i].id = id }

NetworkFailure(o) ==
  \/ o.kind = "reject"
  \/ o.kind = "http" /\ o.status \notin 200..299
  \/ o.kind = "http" /\ o.body = "notjson"

C3_EveryNetworkFailureAppendsError ==
  [][ \A k \in 1..Len(turns) :
        (SettleStep(k) /\ NetworkFailure(lastOp'.net)) =>
          /\ inflight' = inflight \ {k}
          /\ \A i \in Positions(turns[k].conv) :
               /\ AppendsOne(conversations[i].messages, conversations'[i].messages,
                             "assistant")
               /\ LastMessage(conversations'[i]).isError
               /\ LastMessage(conversations'[i]).content = ErrorContent
    ]_vars

C5_WaitingEnds == isWaitingForResponse ~> ~isWaitingForResponse

\* the wait has ended although the conversation was deleted while the send was in flight
C5_Witness ==
  /\ lastOp.op = "respond"
  /\ ~isWaitingForResponse
  /\ lastOp.id \notin ConvIds(conversations)

(***************************************************************************)
(* C6: the user message is in the conversation before the network call of  *)
(* its turn is issued: the step that issues the fetch leaves the user      *)
(* message as the last message of the originating conversation, and an     *)
(* assistant-role message is appended only to a conversation whose last    *)
(* message is the user message of that turn.                               *)
(***************************************************************************)
C6_UserMessageRecordedFirst ==
  [][ /\ SendStep =>
           \E i \in 1..Len(conversations') :
              /\ conversations'[i].id = turns'[Len(turns')].conv
              /\ LastMessage(conversations'[i]).role = "user"
              /\ LastMessage(conversations'[i]).content = turns'[Len(turns')].text
      /\ \A k \in 1..Len(turns) :
           SettleStep(k) =>
             \A i \in 1..Len(conversations) :
                Len(conversations'[i].messages) > Len(conversations[i].messages) =>
                  /\ LastMessage(conversations[i]).role = "user"
                  /\ LastMessage(conversations[i]).content = turns[k].text
    ]_vars

(***************************************************************************)
(* C7: at most one send is outstanding at any time, so at most one per     *)
(* conversation; while a send is in flight the input control is disabled   *)
(* and a submission changes nothing.                                       *)
(***************************************************************************)
C7_OneOutstandingSend ==
  /\ [](Cardinality(inflight) <= 1)
  /\ [](inflight # {} => isWaitingForResponse)
  /\ [][ (inflight # {} /\ lastOp'.op = "handleSubmit") => UNCHANGED chatVars ]_vars

\* a submission was made, and ignored, while a send was in flight
C7_Witness ==
  /\ lastOp = Op("handleSubmit", 0)
  /\ inflight # {}
  /\ isWaitingForResponse

(***************************************************************************)
(* C8: in every reachable state every conversation's message list is the   *)
(* welcome greeting followed by strictly alternating user and              *)
(* assistant-role messages.                                                *)
(***************************************************************************)
C8_StrictAlternation ==
  \A i \in 1..Len(conversations) :
    /\ conversations[i].messages[1].id = "welcome-msg"
    /\ \A j \in 2..Len(conversations[i].messages) :
         conversations[i].messages[j].role = IF j % 2 = 0 THEN "user" ELSE "assistant"

(***************************************************************************)
(* C9: deleteConversation(id) with id the active conversation: if other    *)
(* conversations remain the first of them becomes active; if none remains  *)
(* a fresh conversation holding only the welcome message is put first in   *)
(* the list and becomes active.                                            *)
(***************************************************************************)
C9_DeleteActiveReselects ==
  [][ (lastOp'.op = "deleteConversation" /\ lastOp'.id = activeConversation) =>
        LET remaining == SelectSeq(conversations, LAMBDA c : c.id # lastOp'.id)
        IN  IF Len(remaining) > 0
            THEN activeConversation' = remaining[1].id
            ELSE /\ Len(conversations') = Len(conversations) + 1
                 /\ conversations'[1].title = NewChatTitle
                 /\ Len(conversations'[1].messages) = 1
                 /\ conversations'[1].messages[1].id = "welcome-msg"
                 /\ conversations'[1].messages[1].role = "assistant"
                 /\ conversations'[1].messages[1].content = WelcomeContent
                 /\ activeConversation' = conversations'[1].id
    ]_vars

\* the only conversation, holding a turn, was deleted: a fresh one is first and active
C9_Witness ==
  /\ lastOp.op = "deleteConversation"
  /\ Len(conversations) = 2
  /\ conversations[2].id = lastOp.id
  /\ Len(conversations[2].messages) > 1
  /\ Len(conversations[1].messages) = 1
  /\ activeConversation = conversations[1].id

(***************************************************************************)
(* C10: once the initial-load effect has run the list is never empty again *)
(* and activeConversation is the id of a conversation of the list, so      *)
(* ChatWindow is given a conversation.                                     *)
(***************************************************************************)
C10_ActiveConversationExists ==
  /\ [](Len(conversations) > 0 =>
          /\ activeConversation \in ConvIds(conversations)
          /\ currentConversation # <<>>)
  /\ [][Len(conversations) > 0 => Len(conversations') > 0]_vars

\* the active conversation was deleted while another remained, and one is active
C10_Witness ==
  /\ lastOp.op = "deleteConversation"
  /\ lastOp.id \notin ConvIds(conversations)
  /\ activeConversation \in ConvIds(conversations)

(***************************************************************************)
(* C11: the first user message of a conversation sets its title: a message *)
(* longer than 60 characters gives its first 60 characters followed by     *)
(* "...", a message of 60 characters or fewer gives the message itself.    *)
(* The step that starts a send leaves that title in every conversation     *)
(* with the captured id that held no user message before.                  *)
(***************************************************************************)
HasUserMessage(c) == \E j \in 1..Len(c.messages) : c.messages[j].role = "user"

C11_FirstUserMessageSetsTitle ==
  [][ SendStep =>
        LET text == turns'[Len(turns')].text
        IN  \A i \in 1..Len(conversations) :
               ( /\ conversations[i].id = turns'[Len(turns')].conv
                 /\ ~HasUserMessage(conversations[i]) ) =>
                 conversations'[i].title =
                   IF Len(text) > 60 THEN SubSeq(text, 1, 60) \o "..." ELSE text
    ]_vars

(***************************************************************************)
(* C12: a conversation that holds a user message keeps its title in every  *)
(* step: a step that keeps or extends the list (send, response, error,     *)
(* select, create, deletion of the only conversation) leaves it, with its  *)
(* title, at the same distance from the end of the list; a step that       *)
(* shortens the list (delete) leaves every remaining conversation as it    *)
(* was.                                                                    *)
(***************************************************************************)
\* the place in the next state of the conversation at place i: new
\* conversations are put in front of the list
Later(i) == i + Len(conversations') - Len(conversations)

C12_TitleFixedAfterFirstUserMessage ==
  [][ /\ Len(conversations') >= Len(conversations) =>
           \A i \in 1..Len(conversations) :
              HasUserMessage(conversations[i]) =>
                /\ conversations'[Later(i)].id = conversations[i].id
                /\ conversations'[Later(i)].title = conversations[i].title
      /\ Len(conversations') < Len(conversations) =>
           \A j \in 1..Len(conversations') :
              \E i \in 1..Len(conversations) : conversations'[j] = conversations[i]
    ]_vars

\* a second user message, with another text, was sent and the title is still
\* the one the first gave
C12_Witness ==
  \E i \in 1..Len(conversations) :
     LET msgs == conversations[i].messages
     IN  /\ Len(msgs) >= 4
         /\ msgs[2].role = "user" /\ msgs[4].role = "user"
         /\ msgs[2].content # msgs[4].content
         /\ conversations[i].title = derivedTitle(msgs[2].content)
         /\ conversations[i].title # derivedTitle(msgs[4].content)

(***************************************************************************)
(* C13: messages are append-only and keep their order: in every step the   *)
(* message list of a conversation that stays in the list has its former    *)
(* message list as a prefix; a step that shortens the conversation list    *)
(* leaves every remaining conversation as it was.  The same holds for the  *)
(* message list of LinkedInAPBDemo.                                        *)
(***************************************************************************)
IsPrefix(msgs1, msgs2) ==
  /\ Len(msgs1) <= Len(msgs2)
  /\ \A j \in 1..Len(msgs1) : msgs2[j] = msgs1[j]

C13_MessagesAppendOnly ==
  [][ /\ Len(conversations') >= Len(conversations) =>
           \A i \in 1..Len(conversations) :
              /\ conversations'[Later(i)].id = conversations[i].id
              /\ IsPrefix(conversations[i].messages, conversations'[Later(i)].messages)
      /\ Len(conversations') < Len(conversations) =>
           \A j \in 1..Len(conversations') :
              \E i \in 1..Len(conversations) : conversations'[j] = conversations[i]
      /\ IsPrefix(messages, messages')
    ]_vars

\* a conversation holds two turns in the order in which they were appended
C13_Witness ==
  \E i \in 1..Len(conversations) :
     LET msgs == conversations[i].messages
     IN  /\ Len(msgs) = 5
         /\ msgs[1].id = "welcome-msg"
         /\ msgs[2].role = "user" /\ msgs[3].role = "assistant"
         /\ msgs[4].role = "user" /\ msgs[5].role = "assistant"
         /\ msgs[3].content = ReplyContent /\ msgs[5].isError

(***************************************************************************)
(* C14: the initial-load effect, which runs when the list is empty, leaves *)
(* exactly one conversation, whose only message is the fixed welcome       *)
(* message of the assistant, and makes it active; it issues no fetch, and  *)
(* no fetch was issued before it.                                          *)
(***************************************************************************)
C14_FirstLoadSynthesizesOne ==
  /\ [](Len(conversations) = 0 => (turns = <<>> /\ inflight = {}))
  /\ [][ lastOp'.op = "initialLoad" =>
           /\ Len(conversations) = 0
           /\ Len(conversations') = 1
           /\ conversations'[1].title = NewChatTitle
           /\ Len(conversations'[1].messages) = 1
           /\ conversations'[1].messages[1].id = "welcome-msg"
           /\ conversations'[1].messages[1].role = "assistant"
           /\ conversations'[1].messages[1].content = WelcomeContent
           /\ activeConversation' = conversations'[1].id
           /\ UNCHANGED <<turns, inflight, isWaitingForResponse>>
    ]_vars

\* the effect has just run, some time after the mount
C14_Witness ==
  /\ lastOp.op = "initialLoad"
  /\ now > 1
  /\ Len(conversations) = 1
  /\ conversations[1].id = now
  /\ activeConversation = now
  /\ inflight = {}

(***************************************************************************)
(* C15: in every reachable state every conversation of the list has at     *)
(* least one message, and its first message is the greeting of the         *)
(* assistant.                                                              *)
(***************************************************************************)
C15_GreetingFirst ==
  \A i \in 1..Len(conversations) :
    /\ Len(conversations[i].messages) >= 1
    /\ conversations[i].messages[1].id = "welcome-msg"
    /\ conversations[i].messages[1].role = "assistant"
    /\ conversations[i].messages[1].content = WelcomeContent

\* a fresh conversation stands in front of one that holds a settled turn
C15_Witness ==
  /\ Len(conversations) = 2
  /\ inflight = {}
  /\ Len(conversations[1].messages) = 1
  /\ conversations[1].messages[1].content = WelcomeContent
  /\ Len(conversations[2].messages) = 3
  /\ conversations[2].messages[1].content = WelcomeContent
  /\ conversations[2].id # conversations[1].id

(***************************************************************************)
(* C16: a submission whose text is empty after trimming changes nothing:   *)
(* in the chat client no message is appended, no fetch is issued, no title *)
(* changes and the waiting flag is not set; in LinkedInAPBDemo no message  *)
(* is appended and the loading flag, the stages and the servers are left   *)
(* alone.                                                                  *)
(***************************************************************************)
C16_EmptyTextRejected ==
  [][ /\ (lastOp'.op = "handleSubmit" /\ trim(message) = "") => UNCHANGED chatVars
      /\ (lastOp'.op = "demoSendMessage" /\ trim(currentMessage) = "") => UNCHANGED demoVars
    ]_vars

\* a text of blanks was submitted while nothing was waiting, and was ignored
C16_Witness ==
  /\ lastOp = Op("handleSubmit", 0)
  /\ message = " "
  /\ ~isWaitingForResponse
  /\ inflight = {}
  /\ \A i \in 1..Len(conversations) : Len(conversations[i].messages) = 1

(***************************************************************************)
(* C17: send is not idempotent.  A send of a text that the conversation    *)
(* already holds as a user message, made after the earlier send has        *)
(* completed, is a turn of its own: it adds one more user message with     *)
(* that text and issues a fetch of its own, and the step that settles it   *)
(* adds one more assistant-role message.  The same holds for the message   *)
(* list of LinkedInAPBDemo.                                                *)
(***************************************************************************)
UsersWith(msgs, text) ==
  Cardinality({ j \in 1..Len(msgs) : msgs[j].role = "user" /\ msgs[j].content = text })

AssistantsAfterWelcome(msgs) ==
  Cardinality({ j \in 2..Len(msgs) : msgs[j].role = "assistant" })

C17_SendNotIdempotent ==
  [][ /\ ( /\ lastOp'.op = "handleSubmit"
           /\ trim(message) # ""
           /\ ~isWaitingForResponse ) =>
           /\ SendStep
           /\ turns'[Len(turns')].text = message
           /\ \A i \in 1..Len(conversations) :
                conversations[i].id = activeConversation =>
                  /\ UsersWith(conversations'[i].messages, message) =
                       UsersWith(conversations[i].messages, message) + 1
                  /\ Len(conversations'[i].messages) = Len(conversations[i].messages) + 1
      /\ \A k \in 1..Len(turns) :
           SettleStep(k) =>
             \A i \in 1..Len(conversations) :
                conversations[i].id = turns[k].conv =>
                  /\ Len(conversations') = Len(conversations)
                  /\ AssistantsAfterWelcome(conversations'[i].messages) =
                       AssistantsAfterWelcome(conversations[i].messages) + 1
                  /\ Len(conversations'[i].messages) = Len(conversations[i].messages) + 1
      /\ ( /\ lastOp'.op = "demoSendMessage"
           /\ trim(currentMessage) # ""
           /\ ~isLoading ) =>
           /\ UsersWith(messages', currentMessage) = UsersWith(messages, currentMessage) + 1
           /\ Len(messages') = Len(messages) + 1
      /\ lastOp'.op = "demoRespond" =>
           /\ AssistantsAfterWelcome(messages') = AssistantsAfterWelcome(messages) + 1
           /\ Len(messages') = Len(messages) + 1
    ]_vars

\* the same text was sent twice in one conversation, the second time after the
\* first send had completed, and the conversation holds two pairs
C17_Witness ==
  /\ inflight = {}
  /\ Len(turns) = 2
  /\ \E i \in 1..Len(conversations) :
       LET msgs == conversations[i].messages
       IN  /\ Len(msgs) = 5
           /\ msgs[2].role = "user" /\ msgs[3].role = "assistant"
           /\ msgs[4].role = "user" /\ msgs[5].role = "assistant"
           /\ msgs[2].content = msgs[4].content
           /\ UsersWith(msgs, msgs[2].content) = 2
           /\ AssistantsAfterWelcome(msgs) = 2

(***************************************************************************)
(* C18: conversation identifiers are unique: in every reachable state no   *)
(* two conversations of the list share an id.                              *)
(***************************************************************************)
C18_ConversationIdsUnique ==
  \A i, j \in 1..Len(conversations) :
     conversations[i].id = conversations[j].id => i = j

(***************************************************************************)
(* C19: message identifiers are unique within their conversation: in every *)
(* reachable state no two messages of one conversation share an id, across *)
(* the welcome message, user messages, replies and error messages.         *)
(***************************************************************************)
C19_MessageIdsUnique ==
  \A i \in 1..Len(conversations) :
     \A j, k \in 1..Len(conversations[i].messages) :
        conversations[i].messages[j].id = conversations[i].messages[k].id => j = k

(***************************************************************************)
(* C20: within each conversation the message timestamps are strictly       *)
(* increasing along the message sequence: every message carries a          *)
(* timestamp strictly greater than that of the message before it; the same *)
(* for the message list of LinkedInAPBDemo.                                *)
(***************************************************************************)
StrictlyIncreasing(msgs) ==
  \A j \in 1..(Len(msgs) - 1) : msgs[j].timestamp < msgs[j + 1].timestamp

C20_TimestampsStrictlyIncreasing ==
  /\ \A i \in 1..Len(conversations) : StrictlyIncreasing(conversations[i].messages)
  /\ StrictlyIncreasing(messages)

(***************************************************************************)
(* C21: every message of every conversation has role "user" or            *)
(* "assistant": the welcome message, user messages, replies and error      *)
(* messages of the chat client, and the messages of LinkedInAPBDemo.       *)
(***************************************************************************)
Roles == { "user", "assistant" }

C21_RolesUserOrAssistant ==
  /\ \A i \in 1..Len(conversations) :
        \A j \in 1..Len(conversations[i].messages) :
           conversations[i].messages[j].role \in Roles
  /\ \A j \in 1..Len(messages) : messages[j].role \in Roles

\* a failed send has just been settled: its conversation ends with a user
\* message followed by the error message
C21_Witness ==
  /\ lastOp.op = "respond"
  /\ \E i \in 1..Len(conversations) :
       LET msgs == conversations[i].messages
       IN  /\ Len(msgs) = 3
           /\ msgs[1].id = "welcome-msg"
           /\ msgs[2].role = "user"
           /\ msgs[3].isError
           /\ msgs[3].role = "assistant"

(***************************************************************************)
(* C22: authentication gating.  Without a configured project id the chat   *)
(* App is on screen in every state (no-auth mode); with one, the chat App  *)
(* is on screen only in states where the session is authenticated and user *)
(* loading has finished, never while unauthenticated: no handler of the    *)
(* chat App runs, and none of its state exists, in any other state.        *)
(***************************************************************************)
C22_AuthenticationGating ==
  /\ auth.projectId = "" => app = "chat"
  /\ auth.projectId # "" =>
       /\ app = "chat" => (auth.isAuthenticated /\ ~auth.isUserLoading)
       /\ app # "chat" =>
            /\ app = "login"
            /\ conversations = <<>> /\ activeConversation = Null
            /\ turns = <<>> /\ inflight = {} /\ message = "" /\ ~isWaitingForResponse

\* with a project id configured the session went from signed out to signed
\* in with the user loaded, and the chat App, now on screen, has run
C22_Witness ==
  /\ auth.projectId # ""
  /\ auth.isAuthenticated
  /\ ~auth.isUserLoading
  /\ app = "chat"
  /\ Len(conversations) = 1
  /\ Len(conversations[1].messages) = 3
  /\ inflight = {}

(***************************************************************************)
(* C23: the input control is disabled, and the 'Thinking' indicator shown, *)
(* if and only if a send for the currently active conversation is in       *)
(* flight: a conversation with no send in flight has its input enabled     *)
(* while the send of another conversation is in flight.                    *)
(***************************************************************************)
SendInFlightFor(id) == \E k \in inflight : turns[k].conv = id

C23_DisabledIffActiveSendInFlight ==
  InputMounted => (isWaitingForResponse <=> SendInFlightFor(activeConversation))

(***************************************************************************)
(* C24: the conversation list is ordered most-recently-created first: in   *)
(* every reachable state each conversation's creation time is not earlier  *)
(* than that of every conversation after it in the list.                   *)
(***************************************************************************)
C24_NewestFirst ==
  \A i, j \in 1..Len(conversations) :
     i < j => conversations[i].createdAt >= conversations[j].createdAt

\* two conversations created at different times, the later one in front, and
\* a send has been answered since
C24_Witness ==
  /\ Len(conversations) = 2
  /\ conversations[1].createdAt > conversations[2].createdAt
  /\ lastOp.op = "respond"

(***************************************************************************)
(* C25: frame conditions of the chat client.  A send, its response or its  *)
(* error changes one conversation only, the originating one, and of it     *)
(* only the messages and (on a send) the title; every other conversation   *)
(* and the active selection are left unchanged.  Deleting a conversation   *)
(* that is not the active one removes that one conversation and leaves the *)
(* active selection and every other conversation unchanged.                *)
(***************************************************************************)
ChangedPositions == { i \in 1..Len(conversations) : conversations'[i] # conversations[i] }

RemovesOne(convs1, convs2) ==
  \E p \in 1..Len(convs1) :
     convs2 = SubSeq(convs1, 1, p - 1) \o SubSeq(convs1, p + 1, Len(convs1))

C25_FrameConditions ==
  [][ /\ SendStep =>
           /\ activeConversation' = activeConversation
           /\ Len(conversations') = Len(conversations)
           /\ Cardinality(ChangedPositions) <= 1
           /\ \A i \in ChangedPositions :
                /\ conversations[i].id = turns'[Len(turns')].conv
                /\ conversations'[i].id = conversations[i].id
                /\ conversations'[i].createdAt = conversations[i].createdAt
      /\ \A k \in 1..Len(turns) :
           SettleStep(k) =>
             /\ activeConversation' = activeConversation
             /\ Len(conversations') = Len(conversations)
             /\ Cardinality(ChangedPositions) <= 1
             /\ \A i \in ChangedPositions :
                  /\ conversations[i].id = turns[k].conv
                  /\ conversations'[i] =
                       [conversations[i] EXCEPT !.messages = conversations'[i].messages]
      /\ (lastOp'.op = "deleteConversation" /\ lastOp'.id # activeConversation) =>
           /\ activeConversation' = activeConversation
           /\ RemovesOne(conversations, conversations')
    ]_vars

(***************************************************************************)
(* C26: in LinkedInAPBDemo, whenever a query is being processed (isLoading *)
(* is true) every MCP server status is "active": the reset to "ready"      *)
(* scheduled 1000 ms after a response never takes effect while a later     *)
(* send is loading.                                                        *)
(***************************************************************************)
C26_ServersActiveWhileLoading ==
  (app = "demo" /\ isLoading) =>
     \A i \in 1..Len(mcpServers) : mcpServers[i].status = "active"

(***************************************************************************)
(* C27: in LinkedInAPBDemo each assistant reply is generated from the text *)
(* of the user message of the same turn: every assistant message after the *)
(* welcome message directly follows a user message, its query field is     *)
(* that message's content, and it is the mock response to that content,    *)
(* whatever the input field holds when the reply is built.                 *)
(***************************************************************************)
C27_ReplyAnswersItsQuery ==
  /\ [](\A j \in 2..Len(messages) :
          messages[j].role = "assistant" =>
             /\ messages[j - 1].role = "user"
             /\ messages[j].content.query = messages[j - 1].content)
  /\ [][ (isLoading /\ ~isLoading') =>
           /\ AppendsOne(messages, messages', "assistant")
           /\ messages'[Len(messages')].content =
                generateMockResponse(messages[Len(messages)].content) ]_vars

\* a reply has just been appended while the input field holds a quick prompt
\* that was clicked during loading and differs from the text that was sent
C27_Witness ==
  /\ lastOp.op = "demoRespond"
  /\ Len(messages) >= 3
  /\ messages[Len(messages)].role = "assistant"
  /\ messages[Len(messages)].content.query = messages[Len(messages) - 1].content
  /\ currentMessage # ""
  /\ currentMessage # messages[Len(messages) - 1].content

(***************************************************************************)
(* C28: in LinkedInAPBDemo every accepted send terminates.  The loading    *)
(* stages are shown one after the other in their fixed order, starting     *)
(* with the first; the step after the last stage appends the assistant     *)
(* message, sets isLoading to false and clears loadingStage; a send that   *)
(* is loading eventually reaches such a state, and eventually no send is   *)
(* loading and every MCP server status is "ready".                         *)
(***************************************************************************)
AllServersReady == \A i \in 1..Len(mcpServers) : mcpServers[i].status = "ready"

C28_DemoSendTerminates ==
  /\ [][ /\ (~isLoading /\ isLoading') => loadingStage' = stages[1]
         /\ (isLoading /\ isLoading' /\ loadingStage' # loadingStage) =>
              \E i \in 1..(Len(stages) - 1) :
                 loadingStage = stages[i] /\ loadingStage' = stages[i + 1]
         /\ (isLoading /\ ~isLoading') =>
              /\ loadingStage = stages[Len(stages)]
              /\ loadingStage' = ""
              /\ AppendsOne(messages, messages', "assistant")
       ]_vars
  /\ isLoading ~> (~isLoading /\ loadingStage = "" /\ AllServersReady)

\* a send went through its stages and was answered, and the reset has run
C28_Witness ==
  /\ app = "demo"
  /\ ~isLoading
  /\ loadingStage = ""
  /\ resetTimers = 0
  /\ AllServersReady
  /\ Len(messages) = 3
  /\ messages[2].role = "user"
  /\ messages[3].role = "assistant"

====
